---- MODULE Spec2Model ----
(***************************************************************************)
(* folio_curl: the traversal HRID -> instances -> holdings -> items of     *)
(* src/folio_curl.py, as a state machine.  One action per pipeline stage   *)
(* of get_records (a stage is one resolver call and the code of            *)
(* get_records that follows it up to the next call).  The remote API is    *)
(* an unknown but unchanging data set: remote maps every request already   *)
(* answered to its response, and a repeated request gets the same answer.  *)
(***************************************************************************)
EXTENDS Integers, Sequences, FiniteSets, TLC

VARIABLES
    patched,       \* TRUE: auth and the resolvers are unittest.mock patches
    remote,        \* request key -> response (or mock return value)
    pc,            \* position in get_records
    token,         \* get_records' local token
    instance_ids,  \* get_records' local instance_ids
    holding_ids,   \* get_records' local holding_ids
    item_ids,      \* get_records' local item_ids
    i,             \* position of the loop over instance_ids
    j,             \* position of the loop over holding_ids
    result,        \* the value get_records returned
    raised,        \* the exception that left get_records
    calls,         \* the calls of auth and the resolvers, in order
    http,          \* the requests handed to requests.post / requests.get
    stdout,        \* the lines printed
    previous       \* what the call of get_records before this one did

vars == <<patched, remote, pc, token, instance_ids, holding_ids, item_ids,
          i, j, result, raised, calls, http, stdout, previous>>

----------------------------------------------------------------------------
(* Bounds and the small sets the inputs are drawn from. *)

MaxLen == 2

InstanceIds == {"instance-id-1", "instance-id-2"}
HoldingIds == {"holding-id-1", "holding-id-2"}
Tokens == {"valid-token", "other-token"}

USERNAME == "testuser"
HRID == "1234567890"

SeqsUpTo(S, n) == UNION {[1..m -> S] : m \in 0..n}

----------------------------------------------------------------------------
(* Python values. *)

None == [tag |-> "None", val |-> <<>>]
Str(s) == [tag |-> "str", val |-> s]
List(s) == [tag |-> "list", val |-> s]

\* bool(v) of None and of a list
Truthy(v) == v.tag # "None" /\ v.val # <<>>

NoResult == [tag |-> "no result", val |-> <<>>]
NoException == "none"

\* there was no call of get_records before this one
NoRun == [ran |-> FALSE, result |-> NoResult, calls |-> <<>>]

----------------------------------------------------------------------------
(* The remote API: responses, and the values the test patches return. *)

LOGIN == "/authn/login"
INSTANCES == "/instance-storage/instances"
HOLDINGS == "/holdings-storage/holdings"
ITEMS == "/item-storage/items"

TOKEN_HEADER == "x-okapi-token"

\* requests raises (connection refused, DNS failure): no response at all
TransportFault == [kind |-> "fault", headers |-> <<>>, records |-> <<>>]
\* a response whose body is not JSON
Unparsable(h) == [kind |-> "unparsable", headers |-> h, records |-> <<>>]
\* a response whose body is JSON, with the record list of its collection
Json(h, recs) == [kind |-> "json", headers |-> h, records |-> recs]

\* record lists over the identifiers S, in any order and with repetitions
RecordsOf(S) ==
    {[k \in DOMAIN s |-> [id |-> s[k]]] : s \in SeqsUpTo(S, MaxLen)}

\* the items of a holding are its own: item k of holding h is <<h, k>>, and a
\* holding has 0..MaxLen of them, listed in that order
ItemIdsOf(holding_id) ==
    {[k \in 1..n |-> <<holding_id, k>>] : n \in 0..MaxLen}
ItemRecordsOf(holding_id) ==
    {[k \in DOMAIN s |-> [id |-> s[k]]] : s \in ItemIdsOf(holding_id)}

\* the login response: its headers carry the token, or do not
OtherHeaders == "content-type" :> "application/json"
LoginHeaders ==
    {OtherHeaders} \cup {OtherHeaders @@ (TOKEN_HEADER :> t) : t \in Tokens}
LoginResponses == {TransportFault} \cup {Json(h, <<>>) : h \in LoginHeaders}

CollectionResponses(records) ==
    {TransportFault, Unparsable(<<>>)} \cup {Json(<<>>, r) : r \in records}

\* return values of the patches of TestGetRecords
MockReturn(v) == [kind |-> "mock", headers |-> <<>>, records |-> v]
MockTokens == {MockReturn(None)} \cup {MockReturn(Str(t)) : t \in Tokens}
MockLists(lists) ==
    {MockReturn(None)} \cup {MockReturn(List(s)) : s \in lists}

\* what the remote side (or the patch) may answer to a request
Answers(path, query) ==
    IF path = LOGIN
    THEN (IF patched THEN MockTokens ELSE LoginResponses)
    ELSE IF path = INSTANCES
    THEN (IF patched THEN MockLists(SeqsUpTo(InstanceIds, MaxLen))
          ELSE CollectionResponses(RecordsOf(InstanceIds)))
    ELSE IF path = HOLDINGS
    THEN (IF patched THEN MockLists(SeqsUpTo(HoldingIds, MaxLen))
          ELSE CollectionResponses(RecordsOf(HoldingIds)))
    ELSE (IF patched THEN MockLists(ItemIdsOf(query))
          ELSE CollectionResponses(ItemRecordsOf(query)))

Key(path, query) == <<path, query>>

\* the remote data set does not change: a request asked before is answered
\* as before
Answer(path, query, resp) ==
    IF Key(path, query) \in DOMAIN remote
    THEN resp = remote[Key(path, query)]
    ELSE resp \in Answers(path, query)

\* the answers to choose from: the one given before, or any
AnswersNow(path, query) ==
    IF Key(path, query) \in DOMAIN remote
    THEN {remote[Key(path, query)]}
    ELSE Answers(path, query)

Reveal(path, query, resp) ==
    [k \in DOMAIN remote \cup {Key(path, query)} |->
        IF k = Key(path, query) THEN resp ELSE remote[k]]

----------------------------------------------------------------------------
(* auth and the three resolvers.  Each yields what the call did: the       *)
(* exception it raised (or none), the value it returned, the requests it   *)
(* sent and the lines it printed.                                          *)

Request(method, path, tok, query) ==
    [method |-> method, path |-> path, token |-> tok, query |-> query]

CurlLine(path, query) == [kind |-> "curl", path |-> path, query |-> query]
ErrorLine(path, query) == [kind |-> "error", path |-> path, query |-> query]
BlankLine == [kind |-> "blank", path |-> "", query |-> ""]

Returns(v, reqs, lines) ==
    [raised |-> NoException, value |-> v, http |-> reqs, out |-> lines]
Raises(e, reqs, lines) ==
    [raised |-> e, value |-> None, http |-> reqs, out |-> lines]

\* dict.get(name): the value, or None when the key is missing
DictGet(d, name) == IF name \in DOMAIN d THEN Str(d[name]) ELSE None

\* [record['id'] for record in records]
IdsOf(records) == [k \in DOMAIN records |-> records[k].id]

\* mutant: headers['x-okapi-token'] in place of headers.get(...)
auth_subscript(username, resp) ==
    LET req == Request("POST", LOGIN, None, username)
    IN  IF resp.kind = "fault"
        THEN Raises("ConnectionError", <<req>>, <<>>)
        ELSE IF TOKEN_HEADER \notin DOMAIN resp.headers
        THEN Raises("KeyError", <<req>>, <<>>)
        ELSE Returns(Str(resp.headers[TOKEN_HEADER]), <<req>>,
                     <<CurlLine(LOGIN, username)>>)

auth(username, resp) ==
    LET req == Request("POST", LOGIN, None, username)
    IN  IF resp.kind = "fault"
        THEN Raises("ConnectionError", <<req>>, <<>>)
        ELSE Returns(DictGet(resp.headers, TOKEN_HEADER), <<req>>,
                     <<CurlLine(LOGIN, username)>>)

\* mutant: the single-result policy, only the first match is returned
get_instances_first(tok, hrid, resp) ==
    LET req == Request("GET", INSTANCES, tok, hrid)
    IN  IF resp.kind = "fault"
        THEN Raises("ConnectionError", <<req>>, <<>>)
        ELSE IF resp.kind = "unparsable"
        THEN Returns(List(<<>>), <<req>>, <<ErrorLine(INSTANCES, hrid)>>)
        ELSE Returns(List(IF resp.records # <<>>
                          THEN <<IdsOf(resp.records)[1]>> ELSE <<>>),
                     <<req>>, <<CurlLine(INSTANCES, hrid)>>)

get_instances(tok, hrid, resp) ==
    LET req == Request("GET", INSTANCES, tok, hrid)
    IN  IF resp.kind = "fault"
        THEN Raises("ConnectionError", <<req>>, <<>>)
        ELSE IF resp.kind = "unparsable"
        THEN Returns(List(<<>>), <<req>>, <<ErrorLine(INSTANCES, hrid)>>)
        ELSE Returns(List(IF resp.records # <<>> THEN IdsOf(resp.records)
                                                ELSE <<>>),
                     <<req>>, <<CurlLine(INSTANCES, hrid)>>)

\* mutant: no except clause around response.json()
get_holdings_uncaught(tok, instance_id, resp) ==
    LET req == Request("GET", HOLDINGS, tok, instance_id)
    IN  IF resp.kind = "fault"
        THEN Raises("ConnectionError", <<req>>, <<>>)
        ELSE IF resp.kind = "unparsable"
        THEN Raises("JSONDecodeError", <<req>>, <<>>)
        ELSE Returns(List(IdsOf(resp.records)), <<req>>,
                     <<CurlLine(HOLDINGS, instance_id)>>)

get_holdings(tok, instance_id, resp) ==
    LET req == Request("GET", HOLDINGS, tok, instance_id)
    IN  IF resp.kind = "fault"
        THEN Raises("ConnectionError", <<req>>, <<>>)
        ELSE IF resp.kind = "unparsable"
        THEN Returns(None, <<req>>, <<ErrorLine(HOLDINGS, instance_id)>>)
        ELSE Returns(List(IdsOf(resp.records)), <<req>>,
                     <<CurlLine(HOLDINGS, instance_id)>>)

\* mutant: except Exception in place of except json.JSONDecodeError
get_items_broad_except(tok, holding_id, resp) ==
    LET req == Request("GET", ITEMS, tok, holding_id)
        curl == CurlLine(ITEMS, holding_id)
    IN  IF resp.kind \in {"fault", "unparsable"}
        THEN Returns(List(<<>>), <<req>>,
                     <<curl, ErrorLine(ITEMS, holding_id)>>)
        ELSE Returns(List(IdsOf(resp.records)), <<req>>, <<curl>>)

get_items(tok, holding_id, resp) ==
    LET req == Request("GET", ITEMS, tok, holding_id)
        curl == CurlLine(ITEMS, holding_id)
    IN  IF resp.kind = "fault"
        THEN Raises("ConnectionError", <<req>>, <<curl>>)
        ELSE IF resp.kind = "unparsable"
        THEN Returns(List(<<>>), <<req>>,
                     <<curl, ErrorLine(ITEMS, holding_id)>>)
        ELSE Returns(List(IdsOf(resp.records)), <<req>>, <<curl>>)

\* a patch of TestGetRecords: returns its return value, sends and prints
\* nothing
Mock(resp) == Returns(resp.records, <<>>, <<>>)

CallRecord(fn, tok, arg, r) ==
    [fn |-> fn, token |-> tok, arg |-> arg, raised |-> r.raised,
     ret |-> r.value]

----------------------------------------------------------------------------
(* get_records. *)

Init0 ==
    /\ remote = <<>>
    /\ pc = "auth"
    /\ token = None
    /\ instance_ids = None
    /\ holding_ids = None
    /\ item_ids = <<>>
    /\ i = 0
    /\ j = 0
    /\ result = NoResult
    /\ raised = NoException
    /\ calls = <<>>
    /\ http = <<>>
    /\ stdout = <<>>
    /\ previous = NoRun

\* the program against the remote API
Init == patched = FALSE /\ Init0
\* get_records with auth and the resolvers patched, as TestGetRecords runs it
InitPatched == patched = TRUE /\ Init0

\* mutant: get_records prints no blank line after a call
PerformedWithoutSeparator(fn, path, tok, arg, resp, r) ==
    /\ remote' = Reveal(path, arg, resp)
    /\ calls' = Append(calls, CallRecord(fn, tok, arg, r))
    /\ http' = http \o r.http
    /\ stdout' = stdout \o r.out

\* what every stage records: the call, its requests, its lines, and the
\* blank line get_records prints once the call has returned
Performed(fn, path, tok, arg, resp, r) ==
    /\ remote' = Reveal(path, arg, resp)
    /\ calls' = Append(calls, CallRecord(fn, tok, arg, r))
    /\ http' = http \o r.http
    /\ stdout' = stdout \o r.out
                    \o (IF r.raised = NoException THEN <<BlankLine>> ELSE <<>>)

\* an exception nobody catches leaves get_records
Propagate(e) ==
    /\ pc' = "raised"
    /\ raised' = e
    /\ UNCHANGED <<token, instance_ids, holding_ids, item_ids, i, j, result>>

\* return v
Return(v) ==
    /\ pc' = "returned"
    /\ result' = v
    /\ UNCHANGED raised

\* mutant: if instance_ids == []
NoInstancesOnlyEmptyList(ids) == ids = List(<<>>)
\* line 195: if not instance_ids
NoInstances(ids) == ~Truthy(ids)

\* mutant: if len(holding_ids) > 1
HasHoldingsSeveral(ids) == Truthy(ids) /\ Len(ids.val) > 1
\* line 201: if holding_ids
HasHoldings(ids) == Truthy(ids)

\* mutant: if items
IsNotNoneTruthy(items) == Truthy(items)
\* line 205: if items is not None
IsNotNone(items) == items.tag # "None"

\* mutant: item_ids.insert(0, items)
AppendedInFront(ids, items) == <<items>> \o ids
\* line 207: item_ids.append(items)
Appended(ids, items) == Append(ids, items)

\* mutant: if token is None: return []
AuthenticatedShortCircuit(tok) ==
    IF tok = None
    THEN /\ token' = tok
         /\ Return(List(<<>>))
         /\ UNCHANGED <<instance_ids, holding_ids, item_ids, i, j>>
    ELSE /\ token' = tok
         /\ pc' = "get_instances"
         /\ UNCHANGED <<instance_ids, holding_ids, item_ids, i, j, result,
                        raised>>

\* token = auth(...): get_records goes on to get_instances whatever the
\* token is
Authenticated(tok) ==
    /\ token' = tok
    /\ pc' = "get_instances"
    /\ UNCHANGED <<instance_ids, holding_ids, item_ids, i, j, result, raised>>

\* line 191-192
Auth ==
    /\ pc = "auth"
    /\ \E resp \in AnswersNow(LOGIN, USERNAME) :
        /\ Answer(LOGIN, USERNAME, resp)
        /\ LET r == IF patched THEN Mock(resp) ELSE auth(USERNAME, resp)
           IN  /\ Performed("auth", LOGIN, None, USERNAME, resp, r)
               /\ IF r.raised # NoException
                  THEN Propagate(r.raised)
                  ELSE Authenticated(r.value)
    /\ UNCHANGED <<patched, previous>>

\* mutant: return item_ids inside the loop over instance_ids
NextInstanceReturns(items_so_far) ==
    /\ i' = i
    /\ Return(List(items_so_far))

\* line 208, reached when the loop over holding_ids (inner) or over
\* instance_ids has no next element
NextInstance(items_so_far) ==
    IF i < Len(instance_ids.val)
    THEN /\ i' = i + 1
         /\ pc' = "get_holdings"
         /\ UNCHANGED <<result, raised>>
    ELSE /\ i' = i
         /\ Return(List(items_so_far))

\* mutant: item_ids lives on between calls (a module-level list, a mutable
\* default argument)
KeptItemIds == item_ids
\* line 197: item_ids = []
NewItemIds == <<>>

\* line 193-198
GetInstances ==
    /\ pc = "get_instances"
    /\ \E resp \in AnswersNow(INSTANCES, HRID) :
        /\ Answer(INSTANCES, HRID, resp)
        /\ LET r == IF patched THEN Mock(resp)
                    ELSE get_instances(token, HRID, resp)
           IN  /\ Performed("get_instances", INSTANCES, token, HRID, resp, r)
               /\ IF r.raised # NoException
                  THEN Propagate(r.raised)
                  ELSE IF NoInstances(r.value)
                  THEN /\ instance_ids' = r.value
                       /\ Return(List(<<>>))
                       /\ UNCHANGED <<token, holding_ids, item_ids, i, j>>
                  ELSE IF r.value.tag # "list"
                  THEN \* for ... in None
                       /\ instance_ids' = r.value
                       /\ item_ids' = <<>>
                       /\ pc' = "raised"
                       /\ raised' = "TypeError"
                       /\ UNCHANGED <<token, holding_ids, i, j, result>>
                  ELSE /\ instance_ids' = r.value
                       /\ item_ids' = NewItemIds
                       /\ i' = 1
                       /\ pc' = "get_holdings"
                       /\ UNCHANGED <<token, holding_ids, j, result, raised>>
    /\ UNCHANGED <<patched, previous>>

\* line 199-202, and 208 after the last instance
GetHoldings ==
    /\ pc = "get_holdings"
    /\ LET instance_id == instance_ids.val[i]
       IN \E resp \in AnswersNow(HOLDINGS, instance_id) :
        /\ Answer(HOLDINGS, instance_id, resp)
        /\ LET r == IF patched THEN Mock(resp)
                    ELSE get_holdings(token, instance_id, resp)
           IN  /\ Performed("get_holdings", HOLDINGS, token, instance_id,
                            resp, r)
               /\ IF r.raised # NoException
                  THEN Propagate(r.raised)
                  ELSE /\ holding_ids' = r.value
                       /\ UNCHANGED <<token, instance_ids, item_ids>>
                       /\ IF HasHoldings(r.value)
                          THEN /\ j' = 1
                               /\ pc' = "get_items"
                               /\ UNCHANGED <<i, result, raised>>
                          ELSE /\ j' = j
                               /\ NextInstance(item_ids)
    /\ UNCHANGED <<patched, previous>>

\* line 203-207, and 208 after the last holding of the last instance
GetItems ==
    /\ pc = "get_items"
    /\ LET holding_id == holding_ids.val[j]
       IN \E resp \in AnswersNow(ITEMS, holding_id) :
        /\ Answer(ITEMS, holding_id, resp)
        /\ LET r == IF patched THEN Mock(resp)
                    ELSE get_items(token, holding_id, resp)
               appended == IF IsNotNone(r.value)
                           THEN Appended(item_ids, r.value)
                           ELSE item_ids
           IN  /\ Performed("get_items", ITEMS, token, holding_id, resp, r)
               /\ IF r.raised # NoException
                  THEN Propagate(r.raised)
                  ELSE /\ item_ids' = appended
                       /\ UNCHANGED <<token, instance_ids, holding_ids>>
                       /\ IF j < Len(holding_ids.val)
                          THEN /\ j' = j + 1
                               /\ UNCHANGED <<i, pc, result, raised>>
                          ELSE /\ j' = j
                               /\ NextInstance(appended)
    /\ UNCHANGED <<patched, previous>>

Next == Auth \/ GetInstances \/ GetHoldings \/ GetItems

Spec == Init /\ [][Next]_vars
SpecPatched == InitPatched /\ [][Next]_vars

\* get_records is called once more with the same arguments after it has
\* returned.  What the call before did is kept for comparison; the locals of
\* the new call are unbound until assigned, so the old values are left in
\* place: nothing may read them before it assigns them.
GetRecordsAgain ==
    /\ pc = "returned"
    /\ ~previous.ran
    /\ previous' = [ran |-> TRUE, result |-> result, calls |-> calls]
    /\ pc' = "auth"
    /\ result' = NoResult
    /\ calls' = <<>>
    /\ http' = <<>>
    /\ stdout' = <<>>
    /\ UNCHANGED <<patched, remote, token, instance_ids, holding_ids,
                   item_ids, i, j, raised>>

NextRepeat == Next \/ GetRecordsAgain

\* a run and its repetition against the same remote data
SpecRepeat == Init /\ [][NextRepeat]_vars

----------------------------------------------------------------------------
(* What the properties read off the run. *)

Resolvers == {"get_instances", "get_holdings", "get_items"}

PathOf(fn) ==
    IF fn = "auth" THEN LOGIN
    ELSE IF fn = "get_instances" THEN INSTANCES
    ELSE IF fn = "get_holdings" THEN HOLDINGS
    ELSE ITEMS

\* the response the remote side gave to a call
ResponseTo(c) == remote[Key(PathOf(c.fn), c.arg)]

CallsTo(fn) == SelectSeq(calls, LAMBDA c : c.fn = fn)

\* the value a resolver returned for an argument
Returned(fn, arg) ==
    (CHOOSE c \in {calls[k] : k \in DOMAIN calls} : c.fn = fn /\ c.arg = arg).ret

Called(fn, arg) == \E k \in DOMAIN calls : calls[k].fn = fn /\ calls[k].arg = arg

----------------------------------------------------------------------------
(* C1: whenever get_instances returns [] or None, get_records returns []   *)
(* at once, and get_holdings and get_items are not called at any point of  *)
(* the run.                                                                *)
C1_NoInstancesReturnsEmpty ==
    \A k \in DOMAIN calls :
        ( /\ calls[k].fn = "get_instances"
          /\ calls[k].raised = NoException
          /\ calls[k].ret \in {None, List(<<>>)} )
        => /\ pc = "returned"
           /\ result = List(<<>>)
           /\ \A m \in DOMAIN calls :
                 calls[m].fn \notin {"get_holdings", "get_items"}

\* a run in which get_instances returned None has returned
C1_Witness ==
    /\ pc = "returned"
    /\ \E k \in DOMAIN calls :
         /\ calls[k].fn = "get_instances"
         /\ calls[k].raised = NoException
         /\ calls[k].ret = None

----------------------------------------------------------------------------
(* C2: when every lookup of a run succeeds, the result is the reference    *)
(* sequence: the instances in the order get_instances returned them, for   *)
(* each its holdings in the order get_holdings returned them, and for each *)
(* holding the list get_items returned, as one group; an instance without  *)
(* holdings contributes no group.                                          *)
AllLookupsSucceed ==
    \A k \in DOMAIN calls :
        /\ calls[k].raised = NoException
        /\ calls[k].fn \in Resolvers => ResponseTo(calls[k]).kind = "json"

ReferenceGroups(holdings) ==
    [m \in DOMAIN holdings |-> Returned("get_items", holdings[m])]

RECURSIVE Reference(_)
Reference(instances) ==
    IF instances = <<>> THEN <<>>
    ELSE ReferenceGroups(Returned("get_holdings", Head(instances)).val)
            \o Reference(Tail(instances))

C2_ResultIsReference ==
    (pc = "returned" /\ AllLookupsSucceed)
        => result = List(Reference(Returned("get_instances", HRID).val))

\* two instances, the first without holdings, the second with two holdings
\* whose groups differ
C2_Witness ==
    /\ pc = "returned"
    /\ AllLookupsSucceed
    /\ Len(instance_ids.val) = 2
    /\ Returned("get_holdings", instance_ids.val[1]).val = <<>>
    /\ Len(result.val) = 2
    /\ result.val[1] # result.val[2]

----------------------------------------------------------------------------
(* C3: at the end of a run the output has one group for every get_items    *)
(* call, the k-th group being what the k-th call returned, an empty group  *)
(* included.                                                               *)
C3_OneGroupPerHolding ==
    pc = "returned"
        => result = List([k \in DOMAIN CallsTo("get_items") |->
                            CallsTo("get_items")[k].ret])

\* a holding for which the remote side lists no item has its group []
\* between two other groups
C3_Witness ==
    /\ pc = "returned"
    /\ Len(result.val) = 3
    /\ result.val[2] = List(<<>>)
    /\ ResponseTo(CallsTo("get_items")[2]).kind = "json"
    /\ result.val[1] # List(<<>>)
    /\ result.val[3] # List(<<>>)

----------------------------------------------------------------------------
(* C4: auth sends exactly one request, the POST to /authn/login, and       *)
(* returns the value of the x-okapi-token response header when the         *)
(* response has it, and None, raising nothing, when it has not.            *)
C4_AuthReturnsTokenHeader ==
    pc # "auth"
        => /\ calls[1].fn = "auth"
           /\ http[1] = Request("POST", LOGIN, None, USERNAME)
           /\ Cardinality({k \in DOMAIN http : http[k].path = LOGIN}) = 1
           /\ ResponseTo(calls[1]).kind # "fault"
                => /\ calls[1].raised = NoException
                   /\ \A t \in Tokens :
                        (ResponseTo(calls[1]).headers
                            = (OtherHeaders @@ (TOKEN_HEADER :> t)))
                        => calls[1].ret = Str(t)
                   /\ ResponseTo(calls[1]).headers = OtherHeaders
                        => calls[1].ret = None

\* auth has returned None for a response without the token header
C4_Witness ==
    /\ pc = "get_instances"
    /\ ResponseTo(calls[1]).kind = "json"
    /\ ResponseTo(calls[1]).headers = OtherHeaders
    /\ calls[1].ret = None

----------------------------------------------------------------------------
(* C5: once auth has returned, whatever it returned, get_records calls     *)
(* get_instances next; and the value auth returned is the token of the     *)
(* get_instances call, of every get_holdings and get_items call and of     *)
(* every GET request of the run.                                           *)
C5_TokenPassedUnchanged ==
    (Len(calls) >= 1 /\ calls[1].raised = NoException)
        => /\ \/ pc = "get_instances" /\ Len(calls) = 1
              \/ Len(calls) >= 2 /\ calls[2].fn = "get_instances"
           /\ token = calls[1].ret
           /\ \A k \in 2..Len(calls) : calls[k].token = calls[1].ret
           /\ \A k \in DOMAIN http :
                 http[k].method = "GET" => http[k].token = calls[1].ret

\* a run without a token has gone through all four stages
C5_Witness ==
    /\ pc = "returned"
    /\ calls[1].ret = None
    /\ \E k \in DOMAIN calls : calls[k].fn = "get_items" /\ calls[k].token = None

----------------------------------------------------------------------------
----------------------------------------------------------------------------
----------------------------------------------------------------------------
(* C8: the result of a run that returned is the concatenation, instance by *)
(* instance, of contributions each of which depends on the responses of    *)
(* its own branch alone (nothing for a holdings lookup that failed or      *)
(* found nothing, [] for an items lookup that failed or found nothing);    *)
(* every instance is passed to get_holdings and every holding found to     *)
(* get_items, in order, whatever happened in the branches before.          *)
BranchHoldings(instance_id) ==
    LET resp == remote[Key(HOLDINGS, instance_id)]
    IN  IF resp.kind = "json" THEN IdsOf(resp.records) ELSE <<>>

BranchItems(holding_id) ==
    LET resp == remote[Key(ITEMS, holding_id)]
    IN  List(IF resp.kind = "json" THEN IdsOf(resp.records) ELSE <<>>)

Contribution(instance_id) ==
    [m \in DOMAIN BranchHoldings(instance_id) |->
        BranchItems(BranchHoldings(instance_id)[m])]

RECURSIVE Contributions(_)
Contributions(instances) ==
    IF instances = <<>> THEN <<>>
    ELSE Contribution(Head(instances)) \o Contributions(Tail(instances))

RECURSIVE HoldingsVisited(_)
HoldingsVisited(instances) ==
    IF instances = <<>> THEN <<>>
    ELSE BranchHoldings(Head(instances)) \o HoldingsVisited(Tail(instances))

ArgsOf(cs) == [k \in DOMAIN cs |-> cs[k].arg]

C8_BranchesAreIndependent ==
    pc = "returned"
        => /\ result = List(Contributions(instance_ids.val))
           /\ ArgsOf(CallsTo("get_holdings")) = instance_ids.val
           /\ ArgsOf(CallsTo("get_items")) = HoldingsVisited(instance_ids.val)

\* the holdings lookup of the first instance and the items lookup of the
\* first holding of the second failed to parse; the second holding of the
\* second instance still gave its items
C8_Witness ==
    /\ pc = "returned"
    /\ Len(instance_ids.val) = 2
    /\ remote[Key(HOLDINGS, instance_ids.val[1])].kind = "unparsable"
    /\ Len(BranchHoldings(instance_ids.val[2])) = 2
    /\ remote[Key(ITEMS, BranchHoldings(instance_ids.val[2])[1])].kind
            = "unparsable"
    /\ Len(result.val) = 2
    /\ result.val[1] = List(<<>>)
    /\ result.val[2] # List(<<>>)

----------------------------------------------------------------------------
(* C9: the resolvers answer an unparsable body with the same value: any    *)
(* two resolver calls of a run whose responses could not be parsed         *)
(* returned the same value.                                                *)
C9_UniformFailureSignal ==
    \A a, b \in DOMAIN calls :
        ( /\ calls[a].fn \in Resolvers
          /\ calls[b].fn \in Resolvers
          /\ ResponseTo(calls[a]).kind = "unparsable"
          /\ ResponseTo(calls[b]).kind = "unparsable" )
        => calls[a].ret = calls[b].ret

----------------------------------------------------------------------------
(* C10: a call whose request met a transport fault is the last call of the *)
(* run: it raised, the exception left get_records, nothing was returned,   *)
(* and its request was sent once, every call of the run having sent        *)
(* exactly its one request.                                                *)
RequestOf(c) ==
    Request(IF c.fn = "auth" THEN "POST" ELSE "GET", PathOf(c.fn), c.token,
            c.arg)

C10_TransportFaultEndsTheRun ==
    /\ Len(http) = Len(calls)
    /\ \A k \in DOMAIN calls : http[k] = RequestOf(calls[k])
    /\ \A k \in DOMAIN calls :
         ResponseTo(calls[k]).kind = "fault"
         => /\ k = Len(calls)
            /\ calls[k].raised = "ConnectionError"
            /\ pc = "raised"
            /\ raised = "ConnectionError"
            /\ result = NoResult

\* the fault met get_items after a group had been collected
C10_Witness ==
    /\ pc = "raised"
    /\ calls[Len(calls)].fn = "get_items"
    /\ ResponseTo(calls[Len(calls)]).kind = "fault"
    /\ Len(item_ids) >= 1

----------------------------------------------------------------------------
(* C11: every request of the run has its curl line on stdout, whatever the *)
(* outcome of the call.  Stated for the requests that were answered, with  *)
(* a body that parses or not: a request that met a transport fault ends    *)
(* the run, and only get_items has printed its line by then.               *)
Answered(req) == remote[Key(req.path, req.query)].kind # "fault"

C11_EveryRequestHasItsCurlLine ==
    \A k \in DOMAIN http :
        Answered(http[k])
        => \E m \in DOMAIN stdout :
             stdout[m] = CurlLine(http[k].path, http[k].query)

----------------------------------------------------------------------------
(* C12: a repetition of get_records with the same arguments against the    *)
(* same remote data makes the calls of the run before, one by one, with    *)
(* the same arguments and the same return values, raises nothing and       *)
(* returns the same result.                                                *)
C12_RepetitionIsIdentical ==
    previous.ran
        => /\ Len(calls) <= Len(previous.calls)
           /\ \A k \in DOMAIN calls : calls[k] = previous.calls[k]
           /\ pc # "raised"
           /\ pc = "returned"
                => /\ calls = previous.calls
                   /\ result = previous.result

\* the repetition of a run with two instances has returned; a holdings
\* lookup of the run failed to parse and the result has two groups
C12_Witness ==
    /\ previous.ran
    /\ pc = "returned"
    /\ Len(instance_ids.val) = 2
    /\ Len(result.val) = 2
    /\ result.val[1] # result.val[2]
    /\ \E k \in DOMAIN calls :
         /\ calls[k].fn = "get_holdings"
         /\ ResponseTo(calls[k]).kind = "unparsable"

----------------------------------------------------------------------------
(* C13: the calls of one run are, in this order, auth once, get_instances  *)
(* once, and then for every element of the list get_instances returned,    *)
(* in order, one get_holdings call followed at once by one get_items call  *)
(* for every element of the list that get_holdings call returned, in       *)
(* order: at every point of a run the calls made so far are the beginning  *)
(* of that sequence, and a run that returns has made all of it.  Every     *)
(* get_items call is for a holding the latest get_holdings call returned.  *)
(* Lookups are counted per listed element: an id that a returned list      *)
(* holds twice is looked up once for each place it holds.                  *)
Step(fn, arg) == <<fn, arg>>

\* the ids a resolver call returned; none when it has not been called yet
\* or returned no list
ReturnedList(fn, arg) ==
    LET made == {k \in DOMAIN calls : calls[k].fn = fn /\ calls[k].arg = arg}
        ret == calls[CHOOSE k \in made : TRUE].ret
    IN  IF made # {} /\ ret.tag = "list" THEN ret.val ELSE <<>>

RECURSIVE Walk(_)
Walk(instances) ==
    IF instances = <<>> THEN <<>>
    ELSE LET holdings == ReturnedList("get_holdings", Head(instances))
         IN  <<Step("get_holdings", Head(instances))>>
                \o [m \in DOMAIN holdings |-> Step("get_items", holdings[m])]
                \o Walk(Tail(instances))

CallSequence ==
    <<Step("auth", USERNAME), Step("get_instances", HRID)>>
        \o Walk(ReturnedList("get_instances", HRID))

\* the latest get_holdings call before the k-th call
LatestHoldings(k) ==
    LET before == {g \in 1..(k - 1) : calls[g].fn = "get_holdings"}
    IN  calls[CHOOSE g \in before : \A h \in before : h <= g]

C13_CallsAreDepthFirst ==
    LET expected == CallSequence
    IN  /\ Len(calls) <= Len(expected)
        /\ \A k \in DOMAIN calls :
              /\ Step(calls[k].fn, calls[k].arg) = expected[k]
              /\ calls[k].raised # NoException
                    => k = Len(calls) /\ pc = "raised"
              /\ calls[k].fn = "get_items"
                    => /\ \E g \in 1..(k - 1) : calls[g].fn = "get_holdings"
                       /\ LET latest == LatestHoldings(k).ret
                          IN  /\ latest.tag = "list"
                              /\ \E m \in DOMAIN latest.val :
                                    latest.val[m] = calls[k].arg
        /\ pc = "returned" => Len(calls) = Len(expected)
        /\ pc \in {"auth", "get_instances", "get_holdings", "get_items"}
              => Len(calls) < Len(expected)

\* a run over two instances, the first with two holdings, the second with
\* one, has returned
C13_Witness ==
    /\ pc = "returned"
    /\ Len(instance_ids.val) = 2
    /\ Len(ReturnedList("get_holdings", instance_ids.val[1])) = 2
    /\ Len(ReturnedList("get_holdings", instance_ids.val[2])) = 1
    /\ instance_ids.val[1] # instance_ids.val[2]
    /\ Len(calls) = 7
    /\ calls[3].fn = "get_holdings" /\ calls[4].fn = "get_items"
    /\ calls[5].fn = "get_items" /\ calls[6].fn = "get_holdings"
    /\ calls[7].fn = "get_items"

----------------------------------------------------------------------------
(* C14: get_records prints one blank line right after every call of auth,  *)
(* get_instances, get_holdings and get_items that returns, and no other    *)
(* blank line: at every point of a run there are as many blank lines as    *)
(* calls that returned, and once a call has returned the output ends with  *)
(* its blank line.  A run that has returned printed                        *)
(* 2 + (number of get_holdings calls) + (number of get_items calls) blank  *)
(* lines, which is 2 when get_instances gave no instance.                  *)
BlankLines == Len(SelectSeq(stdout, LAMBDA line : line = BlankLine))

ReturnedCalls == Len(SelectSeq(calls, LAMBDA c : c.raised = NoException))

============================================================================
